---- MODULE Spec2Model ----
(***************************************************************************)
(* Backup / restore orchestration of cdf_export.py (archive variant).      *)
(*                                                                         *)
(* Names (file names, resource names, ids) are sequences of tokens, so     *)
(* that f"draft_{name}.json" is <<"draft_">> \o name and                   *)
(* file.startswith("draft") is a test on the first token.  The ".json"     *)
(* extension is common to every file and is left out of the tokens.        *)
(***************************************************************************)
EXTENDS Naturals, Integers, Sequences, FiniteSets, TLC

VARIABLES
    svc,        \* the pipeline service: namespaces and stored resources
    bucket,     \* the GCS bucket: blob name -> uploaded archive
    backupDir,  \* BACKUP_DIRECTORY/{TODAY}_backup, per date: the staging tree
    restoreDir, \* RESTORE_DIRECTORY/<extract_dir>: the extracted tree
    pc,         \* position of the running process ("idle" between runs)
    loc,        \* local variables of the running orchestrator
    calls,      \* API write calls (PUT) issued by the current run, in order
    log,        \* log records written by the current run, in order
    runs,       \* number of process runs started so far
    faults,     \* number of failures injected so far
    clock,      \* the calendar: index of the current date in Dates
    hist        \* history: facts about earlier runs, read by the properties only

vars == <<svc, bucket, backupDir, restoreDir, pc, loc, calls, log, runs, faults, clock, hist>>

----------------------------------------------------------------------------
(* Bounds *)

MaxFaults == 1
MaxItems == 2

(* Universe of names *)

NsNames == {"default", "ns1"}
Dates == <<"2024-12-06", "2024-12-07">>
NoVersion == "-"

(* Program constants *)

GCS_BACKUP_FOLDER == "cdf/latest"
GCS_ARCHIVE_FOLDER == "cdf/archive"
ZIPFILE_NAME(today) == <<today, "backup.zip">>
LATEST_NAME == <<"backup.zip">>

----------------------------------------------------------------------------
(* JSON documents.  json = "object": a JSON object with the fields below  *)
(* (<<>> / "absent" when the field is missing); "null": the JSON value    *)
(* null; "invalid": text that json.load rejects.                           *)

NoName == <<>>

Doc(js, id, name, cfg) == [json |-> js, id |-> id, name |-> name, configuration |-> cfg]
NullDoc == Doc("null", NoName, NoName, "absent")
DraftDoc(id, name) == Doc("object", id, name, "absent")
ConnDoc(name) == Doc("object", NoName, name, "absent")
AppDoc(name, js, cfg) == Doc(js, NoName, name, cfg)

Key(kind, ns, id) == [kind |-> kind, ns |-> ns, id |-> id]
Path(dir, file) == [dir |-> dir, file |-> file]

NoFiles == [p \in {} |-> NullDoc]
(* json.dump written in another order than the list has *)
json_dump_reversed(content) ==
    <<"[">> \o [x \in 1..Len(content) |-> content[Len(content) + 1 - x]] \o <<"]">>

(* json.dump of a list: the text of a JSON array, element after element; *)
(* json.load of such a text                                              *)
json_dump(content) == <<"[">> \o content \o <<"]">>
json_load(text) == SubSeq(text, 2, Len(text) - 1)

EmptyTree == [hasNs |-> FALSE, nsList |-> <<>>, files |-> NoFiles]

Overlay(f, g) == [p \in (DOMAIN f) \cup (DOMAIN g) |-> IF p \in DOMAIN g THEN g[p] ELSE f[p]]
Without(f, S) == [p \in (DOMAIN f) \ S |-> f[p]]

Range(s) == {s[x] : x \in DOMAIN s}
Perms(S) == {s \in [1..Cardinality(S) -> S] : \A a, b \in 1..Cardinality(S) : s[a] = s[b] => a = b}

StartsWith(name, tok) == Len(name) > 0 /\ name[1] = tok

----------------------------------------------------------------------------
(* The service *)

EmptyService == [ns |-> {"default"}, store |-> NoFiles]

KeysOf(s, kind, n) == {k \in DOMAIN s.store : k.kind = kind /\ k.ns = n}

(* PUT that adds a copy when the key is taken *)
PutAppend(store, k, doc) ==
    IF k \in DOMAIN store
    THEN Overlay(store, [x \in {[k EXCEPT !.id = @ \o <<"copy">>]} |-> doc])
    ELSE Overlay(store, [x \in {k} |-> doc])

(* PUT: create-or-replace under the key *)
Put(store, k, doc) == Overlay(store, [x \in {k} |-> doc])

(* GET /export/apps: one file <ns>/<app> per deployed application; the *)
(* service sends `configuration` as a JSON-encoded string             *)
ExportedDoc(d) == IF d.configuration = "object" THEN [d EXCEPT !.configuration = "string"] ELSE d
ExportFiles(s) ==
    LET K == {k \in DOMAIN s.store : k.kind = "app"}
    IN  [p \in {Path(k.ns, k.id) : k \in K} |-> ExportedDoc(s.store[Key("app", p.dir, p.file)])]

----------------------------------------------------------------------------
(* Locals and bookkeeping *)

LocInit == [op |-> "none", version |-> NoVersion, today |-> "-",
            namespaces |-> <<>>, i |-> 1,
            pipelines_list |-> <<>>, connections |-> <<>>,
            deployed_apps |-> <<>>, pipeline_files |-> <<>>, conn_files |-> <<>>,
            j |-> 1, k |-> 1, zip |-> EmptyTree, zip_blob_path |-> <<>>]

NoBlob == [folder |-> "-", file |-> <<>>]

(* result, op: how the last run ended and what it was; atBackup, backupRun, *)
(* the service as the last backup run found it and that run's number;       *)
(* startSvc: the service as the                                             *)
(* current run found it; failedNs: the namespaces in whose iteration the    *)
(* current backup run met a failure; restored, restoredRun: the blob the    *)
(* current restore run downloaded and the run that uploaded it; listed: the *)
(* order in which os.listdir gave the files of each namespace directory to  *)
(* the restore; again: the current run repeats the restore before it, whose *)
(* calls, downloaded blob and final service are in prev; uploaded: the      *)
(* backup runs whose compression and two uploads all succeeded; clean:      *)
(* those of them that met no failure while staging either                   *)
NoListing == [n \in {} |-> [conn_files |-> <<>>, pipeline_files |-> <<>>, deployed_apps |-> <<>>]]
NoPrev == [svc |-> EmptyService, calls |-> <<>>, restored |-> NoBlob]

HistInit == [result |-> "none", op |-> "none", atBackup |-> EmptyService, backupRun |-> 0,
             startSvc |-> EmptyService, failedNs |-> {},
             restored |-> NoBlob, restoredRun |-> 0,
             listed |-> NoListing, again |-> FALSE, prev |-> NoPrev,
             uploaded |-> {}, clean |-> {}]

Init ==
    /\ svc = EmptyService
    /\ bucket = [b \in {} |-> [content |-> EmptyTree, run |-> 0]]
    /\ backupDir = [d \in Range(Dates) |-> EmptyTree]
    /\ restoreDir = [d \in {} |-> EmptyTree]
    /\ pc = "idle"
    /\ loc = LocInit
    /\ calls = <<>>
    /\ log = <<>>
    /\ runs = 0
    /\ faults = 0
    /\ clock = 1
    /\ hist = HistInit

(* the outcome the repeated restore meets at its current step: that of *)
(* the same step of the restore before it                              *)
Recorded ==
    IF pc = "r_download" THEN hist.prev.restored # NoBlob
    ELSE Len(calls) < Len(hist.prev.calls) => hist.prev.calls[Len(calls) + 1].ok

(* a step that injects a failure spends one unit of the budget; a repeated *)
(* restore meets the outcomes of the restore it repeats                    *)
Outcome(ok) ==
    IF hist.again
    THEN ok = Recorded /\ faults' = faults
    ELSE /\ (~ok => faults < MaxFaults)
         /\ faults' = IF ok THEN faults ELSE faults + 1

(* an except clause in main for the errors of requests only *)
MainCatchesRequests(exc) == exc = "RequestException"

(* line 523, `except Exception`: the exceptions that reach main are raised *)
(* as Exception (lines 61, 106, 183, 203, 274, 304) or are the built-in    *)
(* FileNotFoundError, KeyError and TypeError, all of them subclasses       *)
MainCatches(exc) == exc \in {"Exception", "FileNotFoundError", "KeyError", "TypeError"}

(* how a run that raised into main ends: logged by main, or out of the *)
(* process with a traceback                                            *)
Propagated(result) == IF MainCatches("Exception") THEN result ELSE "crashed"

(* the run ends: return from the orchestrator, or main's except clause *)
EndRun(result, logs) ==
    /\ pc' = "idle"
    /\ log' = log \o logs
    /\ hist' = [hist EXCEPT !.result = IF result = "exception" THEN Propagated(result) ELSE result]

----------------------------------------------------------------------------
(* The environment: users of the service, between runs of the script *)

(* resources a user may create: two drafts that may share a name, two   *)
(* connections, and two deployed applications, the first of which may   *)
(* be exported with a configuration that does not decode or as a file   *)
(* that is not JSON                                                     *)
Drafts == {DraftDoc(<<"d1">>, <<"p1">>), DraftDoc(<<"d2">>, <<"p1">>), DraftDoc(<<"d2">>, <<"p2">>)}
Conns == {ConnDoc(<<"c1">>), ConnDoc(<<"c2">>)}
Apps == {AppDoc(<<"a1">>, "object", "string"), AppDoc(<<"a1">>, "object", "badstring"),
         AppDoc(<<"a1">>, "invalid", "absent"), AppDoc(<<"a2">>, "object", "string")}

Candidates ==
    {<<Key("draft", n, d.id), d>> : n \in NsNames, d \in Drafts}
    \cup {<<Key("conn", n, d.name), d>> : n \in NsNames, d \in Conns}
    \cup {<<Key("app", n, d.name), d>> : n \in NsNames, d \in Apps}

EnvCreateNamespace ==
    /\ pc = "idle" /\ runs = 0
    /\ \E n \in NsNames \ svc.ns : svc' = [svc EXCEPT !.ns = @ \cup {n}]
    /\ UNCHANGED <<bucket, backupDir, restoreDir, pc, loc, calls, log, runs, faults, clock, hist>>

EnvPut ==
    /\ pc = "idle" /\ runs = 0
    /\ Cardinality(DOMAIN svc.store) < MaxItems
    /\ \E c \in Candidates :
        /\ c[1].ns \in svc.ns
        /\ c[1] \notin DOMAIN svc.store
        /\ svc' = [svc EXCEPT !.store = Put(@, c[1], c[2])]
    /\ UNCHANGED <<bucket, backupDir, restoreDir, pc, loc, calls, log, runs, faults, clock, hist>>

(* one resource more than MaxItems *)
EnvPutMore ==
    /\ pc = "idle" /\ runs = 0
    /\ Cardinality(DOMAIN svc.store) = MaxItems
    /\ \E c \in Candidates :
        /\ c[1].ns \in svc.ns
        /\ c[1] \notin DOMAIN svc.store
        /\ svc' = [svc EXCEPT !.store = Put(@, c[1], c[2])]
    /\ UNCHANGED <<bucket, backupDir, restoreDir, pc, loc, calls, log, runs, faults, clock, hist>>

(* a user deletes a resource between two runs *)
EnvDelete ==
    /\ pc = "idle" /\ runs > 0
    /\ \E k \in DOMAIN svc.store : svc' = [svc EXCEPT !.store = Without(@, {k})]
    /\ UNCHANGED <<bucket, backupDir, restoreDir, pc, loc, calls, log, runs, faults, clock, hist>>

(* midnight passes between two runs *)
EnvNextDay ==
    /\ pc = "idle" /\ runs > 0
    /\ clock < Len(Dates)
    /\ clock' = clock + 1
    /\ UNCHANGED <<svc, bucket, backupDir, restoreDir, pc, loc, calls, log, runs, faults, hist>>

(* the script is pointed at a fresh instance of the service *)
EnvWipe ==
    /\ pc = "idle" /\ runs > 0 /\ hist.op = "backup"
    /\ svc # EmptyService
    /\ svc' = EmptyService
    /\ UNCHANGED <<bucket, backupDir, restoreDir, pc, loc, calls, log, runs, faults, clock, hist>>

----------------------------------------------------------------------------
(* main *)

(* the operator's schedule: the run that comes next is schedule[runs + 1] *)
Scheduled(schedule, op) == runs < Len(schedule) /\ schedule[runs + 1] = op

StartRun ==
    /\ pc = "idle"
    /\ runs' = runs + 1
    /\ calls' = <<>>
    /\ log' = <<>>
    /\ UNCHANGED <<svc, bucket, backupDir, restoreDir, faults, clock>>

(* lines 508-520: `backup` *)
MainBackup(schedule) ==
    /\ Scheduled(schedule, "backup")
    /\ StartRun
    /\ loc' = [LocInit EXCEPT !.op = "backup", !.today = Dates[clock]]
    /\ pc' = "b_export"
    /\ hist' = [hist EXCEPT !.result = "running", !.op = "backup", !.atBackup = svc,
                            !.backupRun = runs + 1,
                            !.startSvc = svc, !.failedNs = {},
                            !.restored = NoBlob, !.restoredRun = 0,
                            !.listed = NoListing, !.again = FALSE, !.prev = NoPrev]

(* lines 508-522: `restore [--restore_version VERSION]`; an empty version *)
(* string is as good as none at line 419                                 *)
MainRestore(schedule) ==
    /\ Scheduled(schedule, "restore")
    /\ StartRun
    /\ \E v \in Range(Dates) \cup {NoVersion} :
          loc' = [LocInit EXCEPT !.op = "restore", !.version = v]
    /\ pc' = "r_download"
    /\ hist' = [hist EXCEPT !.result = "running", !.op = "restore",
                            !.startSvc = svc, !.failedNs = {},
                            !.restored = NoBlob, !.restoredRun = 0,
                            !.listed = NoListing, !.again = FALSE, !.prev = NoPrev]

(* the same `restore` command once more, on the service and the bucket as *)
(* the restore before it left them                                        *)
MainRestoreAgain(schedule) ==
    /\ Scheduled(schedule, "restore_again")
    /\ hist.op = "restore" /\ hist.result # "no_token"
    /\ StartRun
    /\ loc' = [LocInit EXCEPT !.op = "restore", !.version = loc.version]
    /\ pc' = "r_download"
    /\ hist' = [hist EXCEPT !.result = "running", !.startSvc = svc,
                            !.restored = NoBlob, !.restoredRun = 0, !.again = TRUE,
                            !.prev = [svc |-> svc, calls |-> calls, restored |-> hist.restored]]

(* get_access_token raises; main's except clause logs it *)
MainTokenFails(schedule) ==
    /\ pc = "idle"
    /\ runs < Len(schedule) /\ schedule[runs + 1] # "restore_again"
    /\ ~hist.again
    /\ Outcome(FALSE)
    /\ runs' = runs + 1
    /\ calls' = <<>>
    /\ loc' = [LocInit EXCEPT !.op = schedule[runs + 1]]
    /\ pc' = "idle"
    /\ log' = <<"CRITICAL token", "ERROR main">>
    /\ hist' = [hist EXCEPT !.result = Propagated("no_token"), !.op = schedule[runs + 1], !.startSvc = svc,
                            !.failedNs = {}, !.restored = NoBlob, !.restoredRun = 0,
                            !.listed = NoListing, !.again = FALSE, !.prev = NoPrev]
    /\ UNCHANGED <<svc, bucket, backupDir, restoreDir, clock>>

----------------------------------------------------------------------------
(* backup_application_state *)

Staged == backupDir[loc.today]

(* format_deployed_apps on one file: json.load, json.loads(configuration) *)
Formattable(d) == d.json = "object" /\ d.configuration = "string"

FormatDoc(d) == [d EXCEPT !.configuration = "object"]

FormattedName(file) == <<"app_">> \o file

(* a file that does not decode ends the processing of its directory *)
format_until_error(files, namespaces) ==
    LET bad == {p.dir : p \in {q \in DOMAIN files : ~Formattable(files[q])}}
        F == {p \in DOMAIN files : p.dir \in Range(namespaces) \ bad /\ Formattable(files[p])}
    IN  Overlay(Without(files, F),
                [q \in {Path(p.dir, FormattedName(p.file)) : p \in F} |->
                    FormatDoc(files[Path(q.dir, Tail(q.file))])])

(* format_deployed_apps: every file of every listed namespace directory  *)
(* that decodes is rewritten and renamed app_<file>; the others are left  *)
(* as they are.  No file of the universe is renamed onto another file     *)
(* that is itself still to be formatted, so the listing order is immaterial *)
format_deployed_apps(files, namespaces) ==
    LET F == {p \in DOMAIN files : p.dir \in Range(namespaces) /\ Formattable(files[p])}
    IN  Overlay(Without(files, F),
                [q \in {Path(p.dir, FormattedName(p.file)) : p \in F} |->
                    FormatDoc(files[Path(q.dir, Tail(q.file))])])

FormatErrors(files, namespaces) ==
    {p \in DOMAIN files : p.dir \in Range(namespaces) /\ ~Formattable(files[p])}

(* a failed export that is logged and returns *)
ExportSoft(ok) == FALSE

(* lines 87-88 and 105-106: a response other than 200 raises, and so *)
(* does a failure to write or extract the export                     *)
ExportRaises(ok) == ~ok

(* line 358: fetch_applications *)
BackupExport ==
    /\ pc = "b_export"
    /\ \E ok \in BOOLEAN :
        /\ Outcome(ok)
        /\ backupDir' = IF ok THEN [backupDir EXCEPT ![loc.today].files = Overlay(@, ExportFiles(svc))]
                        ELSE backupDir
        /\ IF ExportRaises(ok)
           THEN EndRun("exception", <<"ERROR main">>)
           ELSE /\ pc' = "b_namespaces"
                /\ UNCHANGED <<log, hist>>
    /\ UNCHANGED <<svc, bucket, restoreDir, loc, calls, runs, clock>>

(* the backup goes on with an empty list of namespaces *)
GoesOnEmpty(namespaces) == FALSE

(* line 361: `if not namespaces` *)
NothingToBackup(namespaces) == namespaces = <<>>

(* fetch_namespaces: the list of the service in the order the service *)
(* gives it, or [] on a failed request (lines 70-72)                  *)
fetch_namespaces(ok) == IF ok THEN Perms(svc.ns) ELSE {<<>>}

(* lines 360-363: fetch_namespaces and the empty check *)
BackupFetchNamespaces ==
    /\ pc = "b_namespaces"
    /\ \E ok \in BOOLEAN :
        /\ Outcome(ok)
        /\ \E l \in fetch_namespaces(ok) :
            /\ loc' = [loc EXCEPT !.namespaces = l]
            /\ IF NothingToBackup(l)
               THEN EndRun("no_namespaces",
                           IF ok THEN <<"WARNING no namespaces">>
                           ELSE <<"ERROR fetch_namespaces", "WARNING no namespaces">>)
               ELSE /\ pc' = "b_format"
                    /\ UNCHANGED <<log, hist>>
    /\ UNCHANGED <<svc, bucket, backupDir, restoreDir, calls, runs, clock>>

(* line 365 *)
BackupFormat ==
    /\ pc = "b_format"
    /\ backupDir' = [backupDir EXCEPT ![loc.today].files = format_deployed_apps(@, loc.namespaces)]
    /\ log' = log \o [x \in 1..Cardinality(FormatErrors(Staged.files, loc.namespaces)) |-> "ERROR format"]
    /\ pc' = "b_save_ns"
    /\ UNCHANGED <<svc, bucket, restoreDir, loc, calls, runs, faults, hist, clock>>

(* lines 367-372: namespaces.json; save_to_file raises on an I/O error *)
BackupSaveNamespaces ==
    /\ pc = "b_save_ns"
    /\ \E ok \in BOOLEAN :
        /\ Outcome(ok)
        /\ IF ok
           THEN /\ backupDir' = [backupDir EXCEPT ![loc.today].hasNs = TRUE,
                                                  ![loc.today].nsList = json_dump(loc.namespaces)]
                /\ pc' = IF loc.namespaces = <<>> THEN "b_compress" ELSE "b_ns"
                /\ UNCHANGED <<log, hist>>
           ELSE /\ EndRun("exception", <<"ERROR main">>)
                /\ UNCHANGED backupDir
    /\ UNCHANGED <<svc, bucket, restoreDir, loc, calls, runs, clock>>

(* the `for namespace in namespaces` loop of backup moves on *)
NextBackupNamespace(l) ==
    IF l.i < Len(l.namespaces)
    THEN /\ loc' = [l EXCEPT !.i = l.i + 1, !.j = 1, !.k = 1,
                             !.pipelines_list = <<>>, !.connections = <<>>]
         /\ pc' = "b_ns"
    ELSE /\ loc' = [l EXCEPT !.j = 1, !.k = 1, !.pipelines_list = <<>>, !.connections = <<>>]
         /\ pc' = "b_compress"

(* the try of line 377 around the whole loop instead of inside it *)
AbandonNamespaces(l) ==
    /\ loc' = [l EXCEPT !.j = 1, !.k = 1, !.pipelines_list = <<>>, !.connections = <<>>]
    /\ pc' = "b_compress"

(* lines 400-401: the exception is caught inside the loop body *)
CaughtInNamespace(l) == NextBackupNamespace(l)

BackupName == loc.namespaces[loc.i]

(* list items of GET .../drafts and GET .../connections *)
DraftsOf(s, n) == {s.store[k] : k \in KeysOf(s, "draft", n)}
ConnectionsOf(s, n) == {s.store[k] : k \in KeysOf(s, "conn", n)}

(* history: a failure met while the namespace was being backed up *)
Failed(ok) == hist' = IF ok THEN hist ELSE [hist EXCEPT !.failedNs = @ \cup {BackupName}]

(* lines 375-385: namespace directory, fetch_pipelines_list *)
BackupListPipelines ==
    /\ pc = "b_ns"
    /\ \E ok \in BOOLEAN :
        /\ Outcome(ok)
        /\ Failed(ok)
        /\ IF ok
           THEN /\ \E l \in Perms(DraftsOf(svc, BackupName)) :
                     loc' = [loc EXCEPT !.pipelines_list = l, !.j = 1]
                /\ log' = log
           ELSE /\ loc' = [loc EXCEPT !.pipelines_list = <<>>, !.j = 1]
                /\ log' = Append(log, "ERROR fetch_pipelines_list")
    /\ pc' = "b_draft"
    /\ UNCHANGED <<svc, bucket, backupDir, restoreDir, calls, runs, clock>>

DraftFileName(pipeline_name) == <<"draft_">> \o pipeline_name

ConnFileName(connection_name) == <<"conn_">> \o connection_name

(* lines 386-392: one iteration of `for pipeline in pipelines_list`;     *)
(* fetch_pipeline returns None on a failed GET and None is staged as null; *)
(* an exception of save_to_file is caught at line 400                      *)
BackupPipeline ==
    /\ pc = "b_draft"
    /\ loc.j <= Len(loc.pipelines_list)
    /\ LET pipeline == loc.pipelines_list[loc.j]
           file == Path(BackupName, DraftFileName(pipeline.name))
       IN \E fetched \in BOOLEAN, saved \in BOOLEAN :
            /\ fetched \/ saved
            /\ Outcome(fetched /\ saved)
            /\ Failed(fetched /\ saved)
            /\ LET content == IF fetched THEN svc.store[Key("draft", BackupName, pipeline.id)] ELSE NullDoc
                   lg == IF fetched THEN log ELSE Append(log, "ERROR fetch_pipeline")
               IN IF saved
                  THEN /\ backupDir' = [backupDir EXCEPT ![loc.today].files = Overlay(@, [x \in {file} |-> content])]
                       /\ loc' = [loc EXCEPT !.j = loc.j + 1]
                       /\ pc' = "b_draft"
                       /\ log' = lg
                  ELSE /\ backupDir' = backupDir
                       /\ CaughtInNamespace(loc)
                       /\ log' = Append(lg, "ERROR namespace")
    /\ UNCHANGED <<svc, bucket, restoreDir, calls, runs, clock>>

(* lines 394-395: fetch_connections, after the last pipeline *)
BackupListConnections ==
    /\ pc = "b_draft"
    /\ loc.j > Len(loc.pipelines_list)
    /\ \E ok \in BOOLEAN :
        /\ Outcome(ok)
        /\ Failed(ok)
        /\ IF ok
           THEN /\ \E l \in Perms(ConnectionsOf(svc, BackupName)) :
                     loc' = [loc EXCEPT !.connections = l, !.k = 1]
                /\ log' = log
           ELSE /\ loc' = [loc EXCEPT !.connections = <<>>, !.k = 1]
                /\ log' = Append(log, "ERROR fetch_connections")
    /\ pc' = "b_conn"
    /\ UNCHANGED <<svc, bucket, backupDir, restoreDir, calls, runs, clock>>

(* lines 396-399: one iteration of `for connection in connections` *)
BackupConnection ==
    /\ pc = "b_conn"
    /\ loc.k <= Len(loc.connections)
    /\ LET connection == loc.connections[loc.k]
           file == Path(BackupName, ConnFileName(connection.name))
       IN \E saved \in BOOLEAN :
            /\ Outcome(saved)
            /\ Failed(saved)
            /\ IF saved
               THEN /\ backupDir' = [backupDir EXCEPT ![loc.today].files = Overlay(@, [x \in {file} |-> connection])]
                    /\ loc' = [loc EXCEPT !.k = loc.k + 1]
                    /\ pc' = "b_conn"
                    /\ log' = log
               ELSE /\ backupDir' = backupDir
                    /\ CaughtInNamespace(loc)
                    /\ log' = Append(log, "ERROR namespace")
    /\ UNCHANGED <<svc, bucket, restoreDir, calls, runs, clock>>

(* line 374: the namespace's body is complete *)
BackupNamespaceDone ==
    /\ pc = "b_conn"
    /\ loc.k > Len(loc.connections)
    /\ NextBackupNamespace(loc)
    /\ UNCHANGED <<svc, bucket, backupDir, restoreDir, calls, log, runs, faults, hist, clock>>

(* compress_folder: os.walk adds the files of the tree; a directory that *)
(* holds no file leaves no entry in the zip                             *)
compress_folder(tree) == tree

BlobName(folder, file) == [folder |-> folder, file |-> file]

(* blob.upload_from_filename *)
Upload(b, name, zip, run) == Overlay(b, [x \in {name} |-> [content |-> zip, run |-> run]])

(* line 406 *)
BackupCompress ==
    /\ pc = "b_compress"
    /\ \E ok \in BOOLEAN :
        /\ Outcome(ok)
        /\ IF ok
           THEN /\ loc' = [loc EXCEPT !.zip = compress_folder(Staged)]
                /\ pc' = "b_upload_archive"
                /\ UNCHANGED <<log, hist>>
           ELSE /\ EndRun("compress_failed", <<"ERROR compress">>)
                /\ UNCHANGED loc
    /\ UNCHANGED <<svc, bucket, backupDir, restoreDir, calls, runs, clock>>

(* line 408: save_to_gcs logs a failed upload and returns *)
BackupUploadArchive ==
    /\ pc = "b_upload_archive"
    /\ \E ok \in BOOLEAN :
        /\ Outcome(ok)
        /\ IF ok
           THEN /\ bucket' = Upload(bucket, BlobName(GCS_ARCHIVE_FOLDER, ZIPFILE_NAME(loc.today)), loc.zip, runs)
                /\ log' = log
           ELSE /\ bucket' = bucket
                /\ log' = Append(log, "ERROR save_to_gcs")
    /\ pc' = "b_upload_latest"
    /\ UNCHANGED <<svc, backupDir, restoreDir, loc, calls, runs, hist, clock>>

(* line 410 *)
BackupUploadLatest ==
    /\ pc = "b_upload_latest"
    /\ \E ok \in BOOLEAN :
        /\ Outcome(ok)
        /\ bucket' = IF ok THEN Upload(bucket, BlobName(GCS_BACKUP_FOLDER, LATEST_NAME), loc.zip, runs)
                     ELSE bucket
        /\ pc' = "idle"
        /\ log' = IF ok THEN log ELSE Append(log, "ERROR save_to_gcs")
        /\ LET both == ok /\ "ERROR save_to_gcs" \notin Range(log)
           IN hist' = [hist EXCEPT !.result = "done",
                           !.uploaded = IF both THEN @ \cup {runs} ELSE @,
                           !.clean = IF both /\ log = <<>> THEN @ \cup {runs} ELSE @]
    /\ UNCHANGED <<svc, backupDir, restoreDir, loc, calls, runs, clock>>

Backup ==
    \/ BackupExport \/ BackupFetchNamespaces \/ BackupFormat \/ BackupSaveNamespaces
    \/ BackupListPipelines \/ BackupPipeline \/ BackupListConnections
    \/ BackupConnection \/ BackupNamespaceDone
    \/ BackupCompress \/ BackupUploadArchive \/ BackupUploadLatest

----------------------------------------------------------------------------
(* download_and_unzip_from_gcs *)

(* bucket.list_blobs(prefix=gcs_folder_path), the .zip blobs *)
ZipFiles(b, folder) == {n \in DOMAIN b : n.folder = folder}

(* blob.name.split("/")[-1].split("_")[0] *)
ZipVersion(n) == n.file[1]

(* the first .zip blob whatever its date *)
AnyVersion(b, folder, version) == ZipFiles(b, folder)

VersionMatches(b, folder, version) == {n \in ZipFiles(b, folder) : ZipVersion(n) = version}

(* zip_ref.extractall: files of the archive replace files of the same  *)
(* path, every other file of the directory stays                       *)
ExtractAll(old, zip) ==
    [hasNs |-> old.hasNs \/ zip.hasNs,
     nsList |-> IF zip.hasNs THEN zip.nsList ELSE old.nsList,
     files |-> Overlay(old.files, zip.files)]

TreeAt(dirs, d) == IF d \in DOMAIN dirs THEN dirs[d] ELSE EmptyTree

(* the blob chosen at lines 232-245, or none: no .zip blob in the folder, *)
(* or no blob of the requested version                                   *)
Selectable(b, version) ==
    IF version # NoVersion
    THEN VersionMatches(b, GCS_ARCHIVE_FOLDER, version)
    ELSE ZipFiles(b, GCS_BACKUP_FOLDER)

(* lines 419-422 and 221-274 *)
RestoreDownload ==
    /\ pc = "r_download"
    /\ IF Selectable(bucket, loc.version) = {}
       THEN /\ EndRun("exception", <<"ERROR download", "ERROR main">>)
            /\ UNCHANGED <<restoreDir, loc, faults>>
       ELSE \E zip_blob \in Selectable(bucket, loc.version), ok \in BOOLEAN :
            /\ Outcome(ok)
            /\ IF ok
               THEN /\ restoreDir' = Overlay(restoreDir,
                         [x \in {zip_blob.file} |->
                             ExtractAll(TreeAt(restoreDir, zip_blob.file), bucket[zip_blob].content)])
                    /\ loc' = [loc EXCEPT !.zip_blob_path = zip_blob.file]
                    /\ pc' = "r_read_ns"
                    /\ log' = log
                    /\ hist' = [hist EXCEPT !.restored = zip_blob, !.restoredRun = bucket[zip_blob].run]
               ELSE /\ EndRun("exception", <<"ERROR main">>)
                    /\ UNCHANGED <<restoreDir, loc>>
    /\ UNCHANGED <<svc, bucket, backupDir, calls, runs, clock>>

Extracted == restoreDir[loc.zip_blob_path]

(* lines 424-428: read_from_file raises when the file is missing *)
RestoreReadNamespaces ==
    /\ pc = "r_read_ns"
    /\ IF ~Extracted.hasNs
       THEN /\ EndRun("exception", <<"ERROR main">>)
            /\ UNCHANGED loc
       ELSE IF json_load(Extracted.nsList) = <<>>
       THEN /\ EndRun("no_namespaces", <<"WARNING no namespaces">>)
            /\ UNCHANGED loc
       ELSE /\ loc' = [loc EXCEPT !.namespaces = json_load(Extracted.nsList), !.i = 1]
            /\ pc' = "r_classify"
            /\ UNCHANGED <<log, hist>>
    /\ UNCHANGED <<svc, bucket, backupDir, restoreDir, calls, runs, faults, clock>>

RestoreName == loc.namespaces[loc.i]

(* os.listdir(namespace_dir): the directory exists when the archive (or an *)
(* earlier extraction) put a file in it                                    *)
ListDir(tree, name) == {p.file : p \in {q \in DOMAIN tree.files : q.dir = name}}

ConnFiles(tree, name) == {f \in ListDir(tree, name) : StartsWith(f, "conn_")}
PipelineFiles(tree, name) ==
    {f \in ListDir(tree, name) : ~StartsWith(f, "conn_") /\ StartsWith(f, "draft_")}
DeployedApps(tree, name) ==
    {f \in ListDir(tree, name) : ~StartsWith(f, "conn_") /\ ~StartsWith(f, "draft_")}

(* the `for namespace in namespaces` loop of restore moves on, or ends *)
NextRestoreNamespace(logs) ==
    IF loc.i < Len(loc.namespaces)
    THEN /\ loc' = [loc EXCEPT !.i = loc.i + 1, !.j = 1, !.k = 1, !.deployed_apps = <<>>,
                               !.pipeline_files = <<>>, !.conn_files = <<>>]
         /\ pc' = "r_classify"
         /\ log' = log \o logs
         /\ hist' = hist
    ELSE /\ EndRun("done", logs)
         /\ loc' = loc

Call(op, ns, id, ok) == [op |-> op, ns |-> ns, id |-> id, ok |-> ok]

(* create_namespace for every namespace *)
NeedsCreateAlways(name) == TRUE

(* line 449 *)
NeedsCreate(name) == name # "default"

(* create_namespace without an except clause for the failed PUT *)
CatchesNoCreate(site, exc) == site # "create_namespace"

(* the connection loop without an except clause for the failed PUT *)
CatchesNoConnection(site, exc) ==
    CASE site = "create_namespace" -> exc = "RequestException"
      [] site = "upsert_application" -> TRUE
      [] site = "upsert_pipeline_draft" -> TRUE
      [] site = "upsert_connection" -> FALSE

(* the except clauses of the restore loop: which exceptions raised inside *)
(* the try of each call site are handled there (lines 457, 472, 487, 502) *)
Catches(site, exc) ==
    CASE site = "create_namespace" -> exc = "RequestException"
      [] site = "upsert_application" -> TRUE
      [] site = "upsert_pipeline_draft" -> TRUE
      [] site = "upsert_connection" -> exc = "RequestException"

(* the three lists of lines 431-446 in the order os.listdir gives the  *)
(* files: any order, and in a repeated restore the order the directory *)
(* had in the restore before it                                        *)
Listings(tree, name) ==
    IF hist.again /\ name \in DOMAIN hist.listed
    THEN {hist.listed[name]}
    ELSE {[conn_files |-> c, pipeline_files |-> d, deployed_apps |-> a] :
            c \in Perms(ConnFiles(tree, name)),
            d \in Perms(PipelineFiles(tree, name)),
            a \in Perms(DeployedApps(tree, name))}

(* lines 431-449: classification of the directory's files by prefix *)
RestoreClassify ==
    /\ pc = "r_classify"
    /\ IF ListDir(Extracted, RestoreName) = {}
       THEN /\ EndRun("exception", <<"ERROR main">>)
            /\ UNCHANGED loc
       ELSE /\ \E l \in Listings(Extracted, RestoreName) :
                    /\ loc' = [loc EXCEPT !.conn_files = l.conn_files,
                                          !.pipeline_files = l.pipeline_files,
                                          !.deployed_apps = l.deployed_apps, !.j = 1, !.k = 1]
                    /\ hist' = [hist EXCEPT !.listed = Overlay(@, [n \in {RestoreName} |-> l])]
            /\ pc' = IF NeedsCreate(RestoreName) THEN "r_create" ELSE "r_apps"
            /\ log' = log
    /\ UNCHANGED <<svc, bucket, backupDir, restoreDir, calls, runs, faults, clock>>

(* lines 451-459 *)
RestoreCreateNamespace ==
    /\ pc = "r_create"
    /\ \E ok \in BOOLEAN :
        /\ Outcome(ok)
        /\ calls' = Append(calls, Call("create_namespace", RestoreName, <<RestoreName>>, ok))
        /\ IF ok
           THEN /\ svc' = [svc EXCEPT !.ns = @ \cup {RestoreName}]
                /\ pc' = "r_apps"
                /\ UNCHANGED <<loc, log, hist>>
           ELSE /\ svc' = svc
                /\ IF Catches("create_namespace", "RequestException")
                   THEN NextRestoreNamespace(<<"ERROR create_namespace">>)
                   ELSE EndRun("exception", <<"ERROR main">>) /\ UNCHANGED loc
    /\ UNCHANGED <<bucket, backupDir, restoreDir, runs, clock>>

(* read_from_file *)
ReadFile(file) == Extracted.files[Path(RestoreName, file)]

(* session.put(...) and response.raise_for_status() of an upsert *)
Upsert(site, kind, id, doc, ok) ==
    /\ calls' = Append(calls, Call(site, RestoreName, id, ok))
    /\ svc' = IF ok THEN [svc EXCEPT !.store = Put(@, Key(kind, RestoreName, id), doc)] ELSE svc

(* lines 462-473: one iteration of `for app in deployed_apps` *)
RestoreApp ==
    /\ pc = "r_apps"
    /\ loc.j <= Len(loc.deployed_apps)
    /\ LET app_pipeline == ReadFile(loc.deployed_apps[loc.j])
       IN CASE app_pipeline.json = "invalid" ->
                 /\ EndRun("exception", <<"ERROR main">>)
                 /\ UNCHANGED <<svc, loc, calls, faults>>
            [] app_pipeline.json = "null" ->
                 /\ IF Catches("upsert_application", "AttributeError")
                    THEN /\ loc' = [loc EXCEPT !.j = loc.j + 1]
                         /\ log' = Append(log, "ERROR app")
                         /\ UNCHANGED <<pc, hist>>
                    ELSE EndRun("exception", <<"ERROR main">>) /\ UNCHANGED loc
                 /\ UNCHANGED <<svc, calls, faults>>
            [] OTHER ->
                 \E ok \in BOOLEAN :
                    /\ Outcome(ok)
                    /\ Upsert("upsert_application", "app", app_pipeline.name, app_pipeline, ok)
                    /\ IF ok \/ Catches("upsert_application", "RequestException")
                       THEN /\ log' = IF ok THEN log ELSE Append(log, "ERROR app")
                            /\ loc' = [loc EXCEPT !.j = loc.j + 1]
                            /\ UNCHANGED <<pc, hist>>
                       ELSE EndRun("exception", <<"ERROR main">>) /\ UNCHANGED loc
    /\ UNCHANGED <<bucket, backupDir, restoreDir, runs, clock>>

(* line 476: after the last app *)
RestoreAppsDone ==
    /\ pc = "r_apps"
    /\ loc.j > Len(loc.deployed_apps)
    /\ loc' = [loc EXCEPT !.j = 1]
    /\ pc' = "r_drafts"
    /\ UNCHANGED <<svc, bucket, backupDir, restoreDir, calls, log, runs, faults, hist, clock>>

(* lines 476-488: one iteration of `for blob in pipeline_files`, up to the *)
(* nested connection loop.  The except clause formats pipeline['name'],   *)
(* which raises again when the document is null or has no name            *)
RestorePipeline ==
    /\ pc = "r_drafts"
    /\ loc.j <= Len(loc.pipeline_files)
    /\ LET pipeline == ReadFile(loc.pipeline_files[loc.j])
           handled(exc) == Catches("upsert_pipeline_draft", exc)
                           /\ pipeline.json = "object" /\ pipeline.name # NoName
       IN CASE pipeline.json = "invalid" ->
                 /\ EndRun("exception", <<"ERROR main">>)
                 /\ UNCHANGED <<svc, loc, calls, faults>>
            [] pipeline.json = "null" \/ (pipeline.json = "object" /\ pipeline.id = NoName) ->
                 /\ IF handled("KeyError")
                    THEN /\ loc' = [loc EXCEPT !.k = 1]
                         /\ pc' = "r_conns"
                         /\ log' = Append(log, "ERROR pipeline")
                         /\ hist' = hist
                    ELSE EndRun("exception", <<"ERROR main">>) /\ UNCHANGED loc
                 /\ UNCHANGED <<svc, calls, faults>>
            [] OTHER ->
                 \E ok \in BOOLEAN :
                    /\ Outcome(ok)
                    /\ Upsert("upsert_pipeline_draft", "draft", pipeline.id, pipeline, ok)
                    /\ IF (ok /\ pipeline.name # NoName) \/ (~ok /\ handled("RequestException"))
                       THEN /\ log' = IF ok THEN log ELSE Append(log, "ERROR pipeline")
                            /\ loc' = [loc EXCEPT !.k = 1]
                            /\ pc' = "r_conns"
                            /\ hist' = hist
                       ELSE EndRun("exception", <<"ERROR main">>) /\ UNCHANGED loc
    /\ UNCHANGED <<bucket, backupDir, restoreDir, runs, clock>>

(* lines 491-504: one iteration of `for blob in conn_files`, inside the *)
(* pipeline loop; connection["name"] is read before the try            *)
RestoreConnection ==
    /\ pc = "r_conns"
    /\ loc.k <= Len(loc.conn_files)
    /\ LET connection == ReadFile(loc.conn_files[loc.k])
       IN IF connection.json # "object" \/ connection.name = NoName
          THEN /\ EndRun("exception", <<"ERROR main">>)
               /\ UNCHANGED <<svc, loc, calls, faults>>
          ELSE \E ok \in BOOLEAN :
                /\ Outcome(ok)
                /\ Upsert("upsert_connection", "conn", connection.name, connection, ok)
                /\ IF ok \/ Catches("upsert_connection", "RequestException")
                   THEN /\ log' = IF ok THEN log ELSE Append(log, "ERROR connection")
                        /\ loc' = [loc EXCEPT !.k = loc.k + 1]
                        /\ UNCHANGED <<pc, hist>>
                   ELSE EndRun("exception", <<"ERROR main">>) /\ UNCHANGED loc
    /\ UNCHANGED <<bucket, backupDir, restoreDir, runs, clock>>

(* line 476: the pipeline's iteration is complete *)
RestoreConnectionsDone ==
    /\ pc = "r_conns"
    /\ loc.k > Len(loc.conn_files)
    /\ loc' = [loc EXCEPT !.j = loc.j + 1, !.k = 1]
    /\ pc' = "r_drafts"
    /\ UNCHANGED <<svc, bucket, backupDir, restoreDir, calls, log, runs, faults, hist, clock>>

(* line 430: the namespace's body is complete *)
RestoreNamespaceDone ==
    /\ pc = "r_drafts"
    /\ loc.j > Len(loc.pipeline_files)
    /\ NextRestoreNamespace(<<>>)
    /\ UNCHANGED <<svc, bucket, backupDir, restoreDir, calls, runs, faults, clock>>

Restore ==
    \/ RestoreDownload \/ RestoreReadNamespaces \/ RestoreClassify \/ RestoreCreateNamespace
    \/ RestoreApp \/ RestoreAppsDone \/ RestorePipeline \/ RestoreConnection
    \/ RestoreConnectionsDone \/ RestoreNamespaceDone

----------------------------------------------------------------------------
(* cdf_state_v1.py: the variant that keeps one blob per document *)

(* f"cdf/{namespace}/pipelines/{name}.json", f"cdf/{namespace}/connections/{name}.json" *)
V1Folder(ns, kind) == <<"cdf", ns, kind>>
V1Blob(ns, kind, name) == BlobName(V1Folder(ns, kind), name \o <<".json">>)
V1NamespacesBlob == BlobName(<<"cdf">>, <<"namespaces", ".json">>)

(* bucket.list_blobs(prefix=...) *)
V1List(b, ns, kind) == {n \in DOMAIN b : n.folder = V1Folder(ns, kind)}

(* save_to_gcs: json.dumps and upload; a failure is logged and swallowed *)
V1Save(name, data, ok) ==
    /\ bucket' = IF ok THEN Upload(bucket, name, data, runs) ELSE bucket
    /\ log' = IF ok THEN log ELSE Append(log, "ERROR save_to_gcs")

V1MainBackup(schedule) ==
    /\ Scheduled(schedule, "backup")
    /\ StartRun
    /\ loc' = [LocInit EXCEPT !.op = "backup"]
    /\ pc' = "v1b_namespaces"
    /\ hist' = [hist EXCEPT !.result = "running", !.op = "backup", !.atBackup = svc,
                            !.backupRun = runs + 1, !.startSvc = svc, !.failedNs = {}]

V1MainRestore(schedule) ==
    /\ Scheduled(schedule, "restore")
    /\ StartRun
    /\ loc' = [LocInit EXCEPT !.op = "restore"]
    /\ pc' = "v1r_namespaces"
    /\ hist' = [hist EXCEPT !.result = "running", !.op = "restore", !.startSvc = svc]

(* the namespace loops of the variant: the body runs for the namespaces *)
(* other than "default" (lines 133 and 164)                             *)
V1NextNamespace(l, first, stage) ==
    LET rest == {x \in DOMAIN l.namespaces : x >= first /\ l.namespaces[x] # "default"}
    IN  IF rest = {}
        THEN /\ pc' = "idle"
             /\ loc' = l
             /\ hist' = [hist EXCEPT !.result = "done"]
        ELSE /\ pc' = stage
             /\ loc' = [l EXCEPT !.i = CHOOSE x \in rest : \A y \in rest : x <= y,
                                 !.j = 1, !.k = 1]
             /\ hist' = hist

(* lines 125-130 *)
V1BackupNamespaces ==
    /\ pc = "v1b_namespaces"
    /\ \E fetched \in BOOLEAN, saved \in BOOLEAN :
        /\ fetched \/ saved
        /\ Outcome(fetched /\ saved)
        /\ \E l \in fetch_namespaces(fetched) :
            IF NothingToBackup(l)
            THEN /\ EndRun("no_namespaces", <<"ERROR fetch_namespaces", "WARNING no namespaces">>)
                 /\ UNCHANGED <<loc, bucket>>
            ELSE /\ V1Save(V1NamespacesBlob, json_dump(l), saved)
                 /\ V1NextNamespace([loc EXCEPT !.namespaces = l], 1, "v1b_list_p")
    /\ UNCHANGED <<svc, backupDir, restoreDir, calls, runs, clock>>

(* line 137: fetch_pipelines_list *)
V1BackupListPipelines ==
    /\ pc = "v1b_list_p"
    /\ \E ok \in BOOLEAN :
        /\ Outcome(ok)
        /\ IF ok
           THEN \E l \in Perms(DraftsOf(svc, BackupName)) :
                   loc' = [loc EXCEPT !.pipelines_list = l, !.j = 1]
           ELSE loc' = [loc EXCEPT !.pipelines_list = <<>>, !.j = 1]
        /\ log' = IF ok THEN log ELSE Append(log, "ERROR fetch_pipelines_list")
    /\ pc' = "v1b_draft"
    /\ UNCHANGED <<svc, bucket, backupDir, restoreDir, calls, runs, hist, clock>>

(* lines 138-144: the draft is fetched by its id and saved under its name *)
V1BackupPipeline ==
    /\ pc = "v1b_draft"
    /\ loc.j <= Len(loc.pipelines_list)
    /\ LET pipeline == loc.pipelines_list[loc.j]
       IN \E fetched \in BOOLEAN, saved \in BOOLEAN :
            /\ fetched \/ saved
            /\ Outcome(fetched /\ saved)
            /\ LET content == IF fetched THEN svc.store[Key("draft", BackupName, pipeline.id)]
                              ELSE NullDoc
               IN  /\ bucket' = IF saved
                                THEN Upload(bucket, V1Blob(BackupName, "pipelines", pipeline.name), content, runs)
                                ELSE bucket
                   /\ log' = log \o (IF fetched THEN <<>> ELSE <<"ERROR fetch_pipeline">>)
                                 \o (IF saved THEN <<>> ELSE <<"ERROR save_to_gcs">>)
    /\ loc' = [loc EXCEPT !.j = loc.j + 1]
    /\ pc' = "v1b_draft"
    /\ UNCHANGED <<svc, backupDir, restoreDir, calls, runs, hist, clock>>

(* line 147: fetch_connections, after the last draft *)
V1BackupListConnections ==
    /\ pc = "v1b_draft"
    /\ loc.j > Len(loc.pipelines_list)
    /\ \E ok \in BOOLEAN :
        /\ Outcome(ok)
        /\ IF ok
           THEN \E l \in Perms(ConnectionsOf(svc, BackupName)) :
                   loc' = [loc EXCEPT !.connections = l, !.k = 1]
           ELSE loc' = [loc EXCEPT !.connections = <<>>, !.k = 1]
        /\ log' = IF ok THEN log ELSE Append(log, "ERROR fetch_connections")
    /\ pc' = "v1b_conn"
    /\ UNCHANGED <<svc, bucket, backupDir, restoreDir, calls, runs, hist, clock>>

(* lines 148-150 *)
V1BackupConnection ==
    /\ pc = "v1b_conn"
    /\ loc.k <= Len(loc.connections)
    /\ \E ok \in BOOLEAN :
        /\ Outcome(ok)
        /\ V1Save(V1Blob(BackupName, "connections", loc.connections[loc.k].name),
                  loc.connections[loc.k], ok)
    /\ loc' = [loc EXCEPT !.k = loc.k + 1]
    /\ pc' = "v1b_conn"
    /\ UNCHANGED <<svc, backupDir, restoreDir, calls, runs, hist, clock>>

V1BackupNamespaceDone ==
    /\ pc = "v1b_conn"
    /\ loc.k > Len(loc.connections)
    /\ V1NextNamespace(loc, loc.i + 1, "v1b_list_p")
    /\ UNCHANGED <<svc, bucket, backupDir, restoreDir, calls, log, runs, faults, clock>>

V1Backup ==
    \/ V1BackupNamespaces \/ V1BackupListPipelines \/ V1BackupPipeline
    \/ V1BackupListConnections \/ V1BackupConnection \/ V1BackupNamespaceDone

(* load_from_gcs: the document of the blob, or {} when the download or *)
(* the decoding fails (lines 112-120)                                 *)
EmptyDoc == Doc("object", NoName, NoName, "absent")
V1Load(name, ok) == IF ok /\ name \in DOMAIN bucket THEN bucket[name].content ELSE EmptyDoc

(* lines 187-192: the draft is addressed by pipeline["name"] *)
V1DraftAddress(pipeline) == pipeline.name

(* lines 157-160 *)
V1RestoreNamespaces ==
    /\ pc = "v1r_namespaces"
    /\ \E ok \in BOOLEAN :
        /\ Outcome(ok)
        /\ LET namespaces == IF ok /\ V1NamespacesBlob \in DOMAIN bucket
                             THEN json_load(bucket[V1NamespacesBlob].content)
                             ELSE <<>>
           IN IF namespaces = <<>>
              THEN /\ EndRun("no_namespaces", <<"WARNING no namespaces">>)
                   /\ loc' = loc
              ELSE /\ V1NextNamespace([loc EXCEPT !.namespaces = namespaces], 1, "v1r_create")
                   /\ log' = log
    /\ UNCHANGED <<svc, bucket, backupDir, restoreDir, calls, runs, clock>>

(* lines 166-182: create_namespace, then the listing of the draft blobs *)
V1RestoreCreateNamespace ==
    /\ pc = "v1r_create"
    /\ \E ok \in BOOLEAN :
        /\ Outcome(ok)
        /\ calls' = Append(calls, Call("create_namespace", RestoreName, <<RestoreName>>, ok))
        /\ IF ok
           THEN /\ svc' = [svc EXCEPT !.ns = @ \cup {RestoreName}]
                /\ \E l \in Perms(V1List(bucket, RestoreName, "pipelines")) :
                       loc' = [loc EXCEPT !.pipeline_files = l, !.j = 1]
                /\ pc' = "v1r_draft"
                /\ UNCHANGED <<log, hist>>
           ELSE /\ svc' = svc
                /\ V1NextNamespace(loc, loc.i + 1, "v1r_create")
                /\ log' = Append(log, "ERROR create_namespace")
    /\ UNCHANGED <<bucket, backupDir, restoreDir, runs, clock>>

(* lines 205-207: the listing of the connection blobs *)
V1ToConnections ==
    /\ \E l \in Perms(V1List(bucket, RestoreName, "connections")) :
           loc' = [loc EXCEPT !.conn_files = l, !.k = 1]
    /\ pc' = "v1r_conn"

(* lines 182-198: one iteration of the draft loop.  The try is around the *)
(* loop: a failed PUT ends the loop; the handler formats pipeline['name'] *)
(* and raises again when the document is null or has no name             *)
V1RestorePipeline ==
    /\ pc = "v1r_draft"
    /\ loc.j <= Len(loc.pipeline_files)
    /\ \E loaded \in BOOLEAN, ok \in BOOLEAN :
        /\ loaded \/ ok
        /\ Outcome(loaded /\ ok)
        /\ LET pipeline == V1Load(loc.pipeline_files[loc.j], loaded)
           IN IF pipeline.json # "object" \/ pipeline.name = NoName
              THEN /\ EndRun("exception", <<"ERROR load_from_gcs", "ERROR main">>)
                   /\ UNCHANGED <<svc, calls, loc>>
              ELSE /\ Upsert("upsert_pipeline_draft", "draft", V1DraftAddress(pipeline), pipeline, ok)
                   /\ hist' = hist
                   /\ IF ok
                      THEN /\ loc' = [loc EXCEPT !.j = loc.j + 1]
                           /\ pc' = "v1r_draft"
                           /\ log' = log
                      ELSE /\ V1ToConnections
                           /\ log' = Append(log, "ERROR pipeline")
    /\ UNCHANGED <<bucket, backupDir, restoreDir, runs, clock>>

V1RestorePipelinesDone ==
    /\ pc = "v1r_draft"
    /\ loc.j > Len(loc.pipeline_files)
    /\ V1ToConnections
    /\ UNCHANGED <<svc, bucket, backupDir, restoreDir, calls, log, runs, faults, hist, clock>>

(* lines 207-219: one iteration of the connection loop; only the failed *)
(* PUT is caught, and it ends the loop                                  *)
V1RestoreConnection ==
    /\ pc = "v1r_conn"
    /\ loc.k <= Len(loc.conn_files)
    /\ \E loaded \in BOOLEAN, ok \in BOOLEAN :
        /\ loaded \/ ok
        /\ Outcome(loaded /\ ok)
        /\ LET connection == V1Load(loc.conn_files[loc.k], loaded)
           IN IF connection.json # "object" \/ connection.name = NoName
              THEN /\ EndRun("exception", <<"ERROR load_from_gcs", "ERROR main">>)
                   /\ UNCHANGED <<svc, calls, loc>>
              ELSE /\ Upsert("upsert_connection", "conn", connection.name, connection, ok)
                   /\ IF ok
                      THEN /\ loc' = [loc EXCEPT !.k = loc.k + 1]
                           /\ pc' = "v1r_conn"
                           /\ UNCHANGED <<log, hist>>
                      ELSE /\ V1NextNamespace(loc, loc.i + 1, "v1r_create")
                           /\ log' = Append(log, "ERROR connection")
    /\ UNCHANGED <<bucket, backupDir, restoreDir, runs, clock>>

V1RestoreNamespaceDone ==
    /\ pc = "v1r_conn"
    /\ loc.k > Len(loc.conn_files)
    /\ V1NextNamespace(loc, loc.i + 1, "v1r_create")
    /\ UNCHANGED <<svc, bucket, backupDir, restoreDir, calls, log, runs, faults, clock>>

V1Restore ==
    \/ V1RestoreNamespaces \/ V1RestoreCreateNamespace \/ V1RestorePipeline
    \/ V1RestorePipelinesDone \/ V1RestoreConnection \/ V1RestoreNamespaceDone

(* one backup, then one restore *)
BackupThenRestore == <<"backup", "restore">>

Next ==
    \/ EnvCreateNamespace \/ EnvPut \/ EnvWipe
    \/ MainBackup(BackupThenRestore) \/ MainRestore(BackupThenRestore)
    \/ MainTokenFails(BackupThenRestore)
    \/ Backup \/ Restore

Spec == Init /\ [][Next]_vars

(* a backup, a restore, and the same restore once more *)
RestoreTwice == <<"backup", "restore", "restore_again">>

NextTwice ==
    \/ EnvCreateNamespace \/ EnvPut \/ EnvWipe
    \/ MainBackup(RestoreTwice) \/ MainRestore(RestoreTwice)
    \/ MainRestoreAgain(RestoreTwice)
    \/ Backup \/ Restore

SpecTwice == Init /\ [][NextTwice]_vars

(* two backups, on the same day or on two days *)
TwoBackups == <<"backup", "backup">>

NextBackups ==
    \/ EnvCreateNamespace \/ EnvPut \/ EnvDelete \/ EnvNextDay
    \/ MainBackup(TwoBackups) \/ MainTokenFails(TwoBackups)
    \/ Backup

SpecBackups == Init /\ [][NextBackups]_vars

(* a backup and a restore of a service that holds one resource more *)
NextMore ==
    \/ EnvCreateNamespace \/ EnvPut \/ EnvPutMore
    \/ MainBackup(BackupThenRestore) \/ MainRestore(BackupThenRestore)
    \/ Backup \/ Restore

SpecMore == Init /\ [][NextMore]_vars

(* cdf_state_v1.py: a backup and a restore *)
NextV1 ==
    \/ EnvCreateNamespace \/ EnvPut
    \/ V1MainBackup(BackupThenRestore) \/ V1MainRestore(BackupThenRestore)
    \/ MainTokenFails(BackupThenRestore)
    \/ V1Backup \/ V1Restore

SpecV1 == Init /\ [][NextV1]_vars

----------------------------------------------------------------------------
(* What the properties read *)

ConnNamesIn(s, n) == {k.id : k \in KeysOf(s, "conn", n)}
DraftIdsIn(s, n) == {k.id : k \in KeysOf(s, "draft", n)}

RestoreRun == hist.op = "restore" /\ loc.op = "restore"
BackupRun == hist.op = "backup" /\ loc.op = "backup"
Ended == pc = "idle" /\ hist.result # "running"

(* the restore run has extracted an archive *)
HasExtracted == RestoreRun /\ loc.zip_blob_path # <<>>

CallIdx(op, n) == {x \in DOMAIN calls : calls[x].op = op /\ calls[x].ns = n}
CallCount(op, n, id) == Cardinality({x \in CallIdx(op, n) : calls[x].id = id})
CreateFailed(n) == \E x \in CallIdx("create_namespace", n) : ~calls[x].ok

(* namespaces of the archive whose iteration of the restore loop has run *)
(* to its end without being skipped after a failed create_namespace      *)
Processed ==
    {loc.namespaces[x] : x \in {y \in DOMAIN loc.namespaces :
        /\ y < loc.i \/ (Ended /\ hist.result = "done")
        /\ ~CreateFailed(loc.namespaces[y])}}

FileDoc(n, f) == Extracted.files[Path(n, f)]

----------------------------------------------------------------------------
(* C1: round trip.  A backup without failure followed by a restore,      *)
(* without failure, of the archive it uploaded into an empty target      *)
(* leaves in every namespace other than "default" exactly the connection *)
(* names and the draft ids the namespace had when the backup ran.         *)
C1_RoundTrip ==
    (/\ RestoreRun /\ Ended
     /\ hist.restoredRun # 0 /\ hist.restoredRun = hist.backupRun
     /\ faults = 0
     /\ hist.startSvc = EmptyService)
    => \A n \in hist.atBackup.ns \ {"default"} :
          /\ ConnNamesIn(svc, n) = ConnNamesIn(hist.atBackup, n)
          /\ DraftIdsIn(svc, n) = DraftIdsIn(hist.atBackup, n)

(* C2: in a restore run, every connection file of a processed namespace *)
(* has been the subject of exactly one upsert_connection, whatever the   *)
(* number of draft files of the namespace.                               *)
C2_ConnectionOnce ==
    HasExtracted =>
        \A n \in Processed : \A f \in ConnFiles(Extracted, n) :
            CallCount("upsert_connection", n, FileDoc(n, f).name) = 1

(* C3: a step of the restore in which the PUT of an application, a draft *)
(* or a connection fails logs the failure and moves to the position that *)
(* follows the item in its loop; the run does not end there.             *)
FailedUpsert ==
    /\ Len(calls') = Len(calls) + 1
    /\ calls'[Len(calls')].op # "create_namespace"
    /\ ~calls'[Len(calls')].ok

NextItem ==
    \/ pc = "r_apps" /\ pc' = "r_apps" /\ loc' = [loc EXCEPT !.j = loc.j + 1]
    \/ pc = "r_drafts" /\ pc' = "r_conns" /\ loc' = [loc EXCEPT !.k = 1]
    \/ pc = "r_conns" /\ pc' = "r_conns" /\ loc' = [loc EXCEPT !.k = loc.k + 1]

C3_UpsertFailureIsolated ==
    [][FailedUpsert =>
        /\ hist'.result = "running"
        /\ Len(log') = Len(log) + 1
        /\ NextItem
        /\ svc' = svc]_vars

(* a restore that ran to its end although one of its upserts failed, and *)
(* that issued further calls after the failed one                        *)
C3_Witness ==
    /\ RestoreRun /\ Ended /\ hist.result = "done"
    /\ \E x \in DOMAIN calls :
        /\ calls[x].op # "create_namespace" /\ ~calls[x].ok
        /\ x < Len(calls)

(* C4: a step of the restore that reads a staged file holding malformed *)
(* JSON logs it and moves to the next file; the run does not end there.  *)
CurrentFile ==
    CASE pc = "r_apps" /\ loc.j <= Len(loc.deployed_apps) -> <<loc.deployed_apps[loc.j]>>
      [] pc = "r_drafts" /\ loc.j <= Len(loc.pipeline_files) -> <<loc.pipeline_files[loc.j]>>
      [] pc = "r_conns" /\ loc.k <= Len(loc.conn_files) -> <<loc.conn_files[loc.k]>>
      [] OTHER -> <<>>

ReadsMalformed == CurrentFile # <<>> /\ ReadFile(CurrentFile[1]).json = "invalid"

C4_MalformedSkipped ==
    [][ReadsMalformed =>
        /\ hist'.result = "running"
        /\ Len(log') = Len(log) + 1
        /\ NextItem]_vars

(* C5: a restore asked for a version of which the history location holds *)
(* no blob ends with an error and has issued no API write call; when the *)
(* history holds a blob of that version, the archive the run extracts is *)
(* that blob.                                                            *)
HistoryMatches == {n \in ZipFiles(bucket, GCS_ARCHIVE_FOLDER) : ZipVersion(n) = loc.version}

C5_VersionLookup ==
    (RestoreRun /\ loc.version # NoVersion /\ pc # "r_download") =>
        IF HistoryMatches = {}
        THEN /\ Ended /\ hist.result = "exception"
             /\ calls = <<>>
             /\ log # <<>>
        ELSE IF hist.restored = NoBlob
        THEN Ended /\ hist.result = "exception" /\ calls = <<>>
        ELSE /\ hist.restored \in HistoryMatches
             /\ loc.zip_blob_path = hist.restored.file
             /\ Extracted.nsList = bucket[hist.restored].content.nsList
             /\ \A f \in DOMAIN bucket[hist.restored].content.files :
                    /\ f \in DOMAIN Extracted.files
                    /\ Extracted.files[f] = bucket[hist.restored].content.files[f]

(* the history holds archives, none of the version asked for *)
C5_Witness ==
    /\ RestoreRun /\ Ended /\ loc.version # NoVersion
    /\ ZipFiles(bucket, GCS_ARCHIVE_FOLDER) # {}
    /\ HistoryMatches = {}
    /\ hist.result = "exception"

(* C6: when the backup of a namespace met a failure (a failed listing or *)
(* fetch, an exception while staging), the draft and connection files of *)
(* every other namespace of the run are in the archive the run builds.   *)
Archived == BackupRun /\ (pc \in {"b_upload_archive", "b_upload_latest"} \/ (Ended /\ hist.result = "done"))

InArchive(n) ==
    /\ \A d \in DraftsOf(svc, n) :
        /\ Path(n, DraftFileName(d.name)) \in DOMAIN loc.zip.files
        /\ loc.zip.files[Path(n, DraftFileName(d.name))].name = d.name
    /\ \A c \in ConnectionsOf(svc, n) :
        /\ Path(n, ConnFileName(c.name)) \in DOMAIN loc.zip.files
        /\ loc.zip.files[Path(n, ConnFileName(c.name))] = c

C6_NamespaceFailureIsolated ==
    (Archived /\ hist.failedNs # {}) =>
        \A n \in Range(loc.namespaces) \ hist.failedNs : InArchive(n)

(* a failure in a namespace, a later namespace with resources, and the *)
(* archive uploaded                                                    *)
C6_Witness ==
    /\ BackupRun /\ Ended /\ hist.result = "done"
    /\ \E x, y \in DOMAIN loc.namespaces :
        /\ x < y
        /\ loc.namespaces[x] \in hist.failedNs
        /\ loc.namespaces[y] \notin hist.failedNs
        /\ DraftsOf(svc, loc.namespaces[y]) \cup ConnectionsOf(svc, loc.namespaces[y]) # {}
    /\ BlobName(GCS_BACKUP_FOLDER, LATEST_NAME) \in DOMAIN bucket
    /\ bucket[BlobName(GCS_BACKUP_FOLDER, LATEST_NAME)].content = loc.zip

(* C7: in the archive of a backup run, every exported application file  *)
(* whose configuration decodes is there formatted under app_<name>; a   *)
(* file whose configuration does not decode is there as exported, and   *)
(* keeps no other file of its directory from being formatted.           *)
ExportedApps(n) == {ExportedDoc(svc.store[k]) : k \in KeysOf(svc, "app", n)}

FailedCreate ==
    /\ Len(calls') = Len(calls) + 1
    /\ calls'[Len(calls')].op = "create_namespace"
    /\ ~calls'[Len(calls')].ok

NoCallAfterFailedCreate ==
    \A x \in DOMAIN calls :
        (calls[x].op = "create_namespace" /\ ~calls[x].ok) =>
            \A y \in DOMAIN calls : calls[y].ns = calls[x].ns => y = x

C8_CreateFailureSkips ==
    /\ []NoCallAfterFailedCreate
    /\ [][FailedCreate =>
            IF loc.i < Len(loc.namespaces)
            THEN pc' = "r_classify" /\ loc'.i = loc.i + 1 /\ hist'.result = "running"
            ELSE pc' = "idle" /\ hist'.result = "done"]_vars

(* a failed create_namespace followed by the calls of the next namespace *)
C8_Witness ==
    /\ RestoreRun
    /\ \E x \in DOMAIN calls :
        /\ calls[x].op = "create_namespace" /\ ~calls[x].ok
        /\ x < Len(calls)

(* C9: no create_namespace is issued for "default"; a backup stages the *)
(* drafts, connections and exported applications of "default", and a    *)
(* restore that processes "default" upserts its application and draft   *)
(* files, and its connection files whenever the loop over its draft     *)
(* files has an iteration, as for any other namespace.                   *)
IterationDone(n) ==
    \E x \in DOMAIN loc.namespaces :
        /\ loc.namespaces[x] = n
        /\ \/ x < loc.i
           \/ pc \in {"b_compress", "b_upload_archive", "b_upload_latest"}
           \/ Ended /\ hist.result \in {"done", "compress_failed"}

DefaultStaged ==
    (BackupRun /\ IterationDone("default") /\ "default" \notin hist.failedNs) =>
        /\ \A d \in DraftsOf(svc, "default") :
                Path("default", DraftFileName(d.name)) \in DOMAIN Staged.files
        /\ \A c \in ConnectionsOf(svc, "default") :
                Path("default", ConnFileName(c.name)) \in DOMAIN Staged.files
        /\ \A d \in ExportedApps("default") :
                Path("default", IF Formattable(d) THEN FormattedName(d.name) ELSE d.name) \in DOMAIN Staged.files

DefaultRestored ==
    (HasExtracted /\ "default" \in Processed) =>
        /\ \A f \in DeployedApps(Extracted, "default") :
                FileDoc("default", f).json = "object" =>
                    CallCount("upsert_application", "default", FileDoc("default", f).name) >= 1
        /\ \A f \in PipelineFiles(Extracted, "default") :
                CallCount("upsert_pipeline_draft", "default", FileDoc("default", f).id) >= 1
        /\ \A f \in ConnFiles(Extracted, "default") :
                PipelineFiles(Extracted, "default") # {} =>
                    CallCount("upsert_connection", "default", FileDoc("default", f).name) >= 1

C9_DefaultNamespace ==
    /\ \A x \in DOMAIN calls : calls[x].op = "create_namespace" => calls[x].ns # "default"
    /\ DefaultStaged
    /\ DefaultRestored

(* a restore that has upserted a draft and a connection of "default" *)
C9_Witness ==
    /\ RestoreRun /\ Ended /\ hist.result = "done"
    /\ CallIdx("upsert_pipeline_draft", "default") # {}
    /\ CallIdx("upsert_connection", "default") # {}

(* C10: when the same restore has run a second time on the archive and *)
(* the service the first left, with the outcome the first had at every *)
(* call, the service holds the namespaces and the applications, drafts *)
(* and connections it held after the first, and the second has issued  *)
(* the calls of the first.                                             *)
C10_RestoreIdempotent ==
    (hist.again /\ Ended) =>
        /\ calls = hist.prev.calls
        /\ svc.ns = hist.prev.svc.ns
        /\ DOMAIN svc.store = DOMAIN hist.prev.svc.store

(* a repeated restore that created a namespace, upserted a draft and met *)
(* a failed call                                                         *)
C10_Witness ==
    /\ hist.again /\ Ended /\ hist.result = "done"
    /\ \E x, y, z \in DOMAIN calls :
        /\ calls[x].op = "create_namespace" /\ calls[x].ok
        /\ calls[y].op = "upsert_pipeline_draft" /\ calls[y].ok
        /\ ~calls[z].ok

(* C11: the namespaces.json of the archive a backup run builds and uploads *)
(* deserializes to the list fetch_namespaces returned to the run, element  *)
(* for element; a restore iterates over the deserialized namespaces.json   *)
(* of the archive it extracted, and its calls follow the order of the list *)
IndexIn(list, n) == CHOOSE x \in DOMAIN list : list[x] = n

NamespacesArchived ==
    Archived =>
        /\ loc.zip.hasNs
        /\ json_load(loc.zip.nsList) = loc.namespaces
        /\ \A b \in DOMAIN bucket : bucket[b].run = runs => bucket[b].content.nsList = loc.zip.nsList

NamespacesIterated ==
    (HasExtracted /\ pc \in {"r_classify", "r_create", "r_apps", "r_drafts", "r_conns"}) =>
        /\ loc.namespaces = json_load(bucket[hist.restored].content.nsList)
        /\ \A x \in DOMAIN calls :
            /\ calls[x].ns \in Range(loc.namespaces)
            /\ IndexIn(loc.namespaces, calls[x].ns) <= loc.i
            /\ \A y \in DOMAIN calls :
                x < y => IndexIn(loc.namespaces, calls[x].ns) <= IndexIn(loc.namespaces, calls[y].ns)

C11_NamespacesOrder == NamespacesArchived /\ NamespacesIterated

(* a restore of this backup's archive at its second namespace, "default", *)
(* with calls made for the first                                          *)
C11_Witness ==
    /\ HasExtracted /\ pc = "r_apps"
    /\ hist.restoredRun = hist.backupRun
    /\ loc.namespaces = <<"ns1", "default">>
    /\ loc.i = 2
    /\ calls # <<>>

(* C12: a backup run to which fetch_namespaces gave an empty list has *)
(* ended with the warning, has compressed nothing and has uploaded    *)
(* nothing to either folder of the bucket.                            *)
FetchedNamespaces ==
    /\ BackupRun
    /\ pc \notin {"b_export", "b_namespaces"}
    /\ hist.result \notin {"exception", "no_token", "crashed"} \/ loc.namespaces # <<>>

C12_NoNamespacesNoArchive ==
    (FetchedNamespaces /\ loc.namespaces = <<>>) =>
        /\ Ended /\ hist.result = "no_namespaces"
        /\ log[Len(log)] = "WARNING no namespaces"
        /\ loc.zip = LocInit.zip
        /\ \A b \in DOMAIN bucket : bucket[b].run # runs

(* the request for the namespaces failed after the export was staged *)
C12_Witness ==
    /\ FetchedNamespaces /\ loc.namespaces = <<>>
    /\ Staged.files # NoFiles
    /\ log = <<"ERROR fetch_namespaces", "WARNING no namespaces">>

(* C13: the step of a backup run at which the export of the deployed  *)
(* applications fails ends the run with the exception logged by main: *)
(* the staging tree has no namespaces.json, no draft file and no      *)
(* connection file added, the locals hold no fetched list, and the    *)
(* bucket is as it was.                                               *)
ExportFails == pc = "b_export" /\ faults' = faults + 1

C13_ExportFailureAborts ==
    [][ExportFails =>
        /\ pc' = "idle" /\ hist'.result = "exception"
        /\ log' = Append(log, "ERROR main")
        /\ backupDir' = backupDir
        /\ bucket' = bucket
        /\ loc' = loc]_vars

(* a backup run ended by the failed export, the service holding a draft *)
C13_Witness ==
    /\ BackupRun /\ Ended /\ hist.result = "exception"
    /\ loc.namespaces = <<>>
    /\ ~Staged.hasNs
    /\ \E n \in svc.ns : DraftsOf(svc, n) # {}

(* C14: when every backup run so far has completed its compression and *)
(* its two uploads, the history folder holds as many archives as there *)
(* were runs, one uploaded by each.                                    *)
C14_HistoryAccumulates ==
    (pc = "idle" /\ runs > 0 /\ hist.uploaded = 1..runs) =>
        /\ Cardinality(ZipFiles(bucket, GCS_ARCHIVE_FOLDER)) = runs
        /\ \A r \in 1..runs : \E b \in ZipFiles(bucket, GCS_ARCHIVE_FOLDER) : bucket[b].run = r

(* C15: once a backup run has completed staging, compression and both  *)
(* uploads without error, the latest folder holds one archive, that of *)
(* the most recent such run.                                           *)
LastOf(S) == CHOOSE r \in S : \A q \in S : q <= r

C15_LatestIsLastComplete ==
    (pc = "idle" /\ hist.clean # {}) =>
        /\ ZipFiles(bucket, GCS_BACKUP_FOLDER) = {BlobName(GCS_BACKUP_FOLDER, LATEST_NAME)}
        /\ bucket[BlobName(GCS_BACKUP_FOLDER, LATEST_NAME)].run = LastOf(hist.clean)

(* C16: the step of a backup run at which the compression or the upload *)
(* to the history folder fails logs the failure and ends the run.       *)
CompressFails == pc = "b_compress" /\ faults' = faults + 1
ArchiveUploadFails == pc = "b_upload_archive" /\ faults' = faults + 1

C16_StorageFailureEndsRun ==
    [][(CompressFails \/ ArchiveUploadFails) =>
        /\ pc' = "idle"
        /\ Len(log') = Len(log) + 1
        /\ bucket' = bucket]_vars

(* C17: among the calls a restore makes for one namespace,            *)
(* create_namespace comes before every upsert, every upsert_application *)
(* before every upsert_pipeline_draft, and every upsert_pipeline_draft  *)
(* before every upsert_connection.                                      *)
Rank(op) ==
    CASE op = "create_namespace" -> 0
      [] op = "upsert_application" -> 1
      [] op = "upsert_pipeline_draft" -> 2
      [] op = "upsert_connection" -> 3

C17_CallOrder ==
    RestoreRun =>
        \A x, y \in DOMAIN calls :
            (calls[x].ns = calls[y].ns /\ Rank(calls[x].op) < Rank(calls[y].op)) => x < y

(* C18: a step of a backup run that places a file in a namespace *)
(* directory of the staging tree finds namespaces.json at the    *)
(* root of the tree.                                             *)
PlacesFile ==
    /\ BackupRun /\ pc # "idle"
    /\ backupDir'[loc.today].files # backupDir[loc.today].files

C18_NamespacesFileFirst ==
    [][PlacesFile => backupDir[loc.today].hasNs]_vars

(* C19: every run ends in main: with the return of the orchestrator, or *)
(* with the exception of the token or of the orchestrator logged by     *)
(* main's except clause; none leaves the process.                       *)
C19_MainSwallows ==
    (pc = "idle" /\ runs > 0) =>
        /\ hist.result \in {"done", "no_namespaces", "compress_failed", "exception", "no_token"}
        /\ hist.result \in {"exception", "no_token"} => log[Len(log)] = "ERROR main"

(* a restore ended by an exception after it had made a call *)
C19_Witness ==
    /\ RestoreRun /\ Ended /\ hist.result = "exception"
    /\ calls # <<>>

(* C20: when the restore of an archive that a backup run uploaded comes *)
(* to a namespace of namespaces.json for which the archive holds no    *)
(* file, the namespace having held no resource when the backup ran,    *)
(* the run goes on: to create_namespace when the namespace is          *)
(* not "default", to the (empty) loops otherwise.                      *)
ReachesEmptyNamespace ==
    /\ HasExtracted /\ pc = "r_classify"
    /\ hist.restoredRun # 0 /\ hist.restoredRun = hist.backupRun
    /\ \A k \in DOMAIN hist.atBackup.store : k.ns # RestoreName
    /\ ListDir(Extracted, RestoreName) = {}

C20_EmptyNamespaceRestored ==
    [][ReachesEmptyNamespace =>
        /\ hist'.result = "running"
        /\ pc' = IF NeedsCreate(RestoreName) THEN "r_create" ELSE "r_apps"]_vars

(* C21: the step of a restore that reads a draft file staged as null, *)
(* the fetch of the draft having failed when the backup ran, logs it  *)
(* and goes on with the run.                                          *)
ReadsNullDraft ==
    /\ HasExtracted /\ pc = "r_drafts"
    /\ hist.restoredRun # 0
    /\ loc.j <= Len(loc.pipeline_files)
    /\ ReadFile(loc.pipeline_files[loc.j]).json = "null"

C21_AbsentDraftSkipped ==
    [][ReadsNullDraft =>
        /\ hist'.result = "running"
        /\ pc' = "r_conns"
        /\ Len(log') = Len(log) + 1
        /\ calls' = calls]_vars

(* C22: every draft, connection and application file of the archive a *)
(* backup run builds is the file of a draft, a connection or a        *)
(* deployed application the service holds during that run.            *)
FromService(p) ==
    LET s == hist.atBackup
    IN  IF StartsWith(p.file, "conn_")
        THEN \E c \in ConnectionsOf(s, p.dir) : ConnFileName(c.name) = p.file
        ELSE IF StartsWith(p.file, "draft_")
        THEN \E d \in DraftsOf(s, p.dir) : DraftFileName(d.name) = p.file
        ELSE \E k \in KeysOf(s, "app", p.dir) : p.file \in {k.id, FormattedName(k.id)}

C22_ArchiveFromThisRun ==
    Archived => \A p \in DOMAIN loc.zip.files : FromService(p)

(* C23: when a restore of cdf_state_v1.py has ended without a failure, *)
(* every draft blob of a restored namespace that holds the draft of id *)
(* d has had an upsert_pipeline_draft addressed to d in its namespace. *)
C23_DraftIdKept ==
    (hist.op = "restore" /\ loc.op = "restore" /\ Ended /\ hist.result = "done" /\ faults = 0) =>
        \A n \in Range(loc.namespaces) \ {"default"} :
            \A b \in V1List(bucket, n, "pipelines") :
                \E x \in CallIdx("upsert_pipeline_draft", n) : calls[x].id = bucket[b].content.id

====
